---------------------------- MODULE Spec2Model ----------------------------
(***************************************************************************)
(* BigFiles: a generator that writes synthetic sales records in batches    *)
(* (src/src/generator.ts) and a streaming aggregator that folds the        *)
(* records into monthly buckets and writes a sorted report                 *)
(* (src/src/main.ts).                                                      *)
(*                                                                         *)
(* Modelling conventions                                                   *)
(*  - A JavaScript number is an IEEE-754 binary64 value.  Amounts are      *)
(*    modelled as such: a sign, a 53-bit significand and a binary          *)
(*    exponent, every operation being the exact result rounded to nearest, *)
(*    ties to even.  Significands exceed the 32-bit integers of the model  *)
(*    checker, so they are held as little-endian sequences of 15-bit       *)
(*    limbs.  NaN is a value of its own.  Infinities, subnormals and       *)
(*    signed zeros do not arise for the amounts of the model.              *)
(*  - Counters (numberOfOrders, processed, ids) are integers: they stay    *)
(*    far below 2^53.                                                      *)
(*  - Text is modelled by its structure: a decimal numeral is its whole    *)
(*    part and the sequence of its fraction digits, a bucket key is the    *)
(*    sequence of its character codes, an ISO-8601 timestamp is the record *)
(*    of its UTC fields.                                                   *)
(*  - A process's time zone is a fixed offset from UTC in minutes (no      *)
(*    daylight-saving transitions).                                        *)
(*  - order_id and customer_id are written and parsed but never read by    *)
(*    the aggregation; rows carry id, total and date.                      *)
(***************************************************************************)
EXTENDS Integers, Sequences, FiniteSets, TLC

(***************************************************************************)
(* Natural numbers of arbitrary size: little-endian limbs, no high zero    *)
(* limb, zero is the empty sequence.                                       *)
(***************************************************************************)
Base == 2^15

RECURSIVE Pow2(_)
Pow2(k) == IF k = 0 THEN 1 ELSE 2 * Pow2(k - 1)

RECURSIVE BNorm(_)
BNorm(a) ==
  IF a = <<>> THEN <<>>
  ELSE IF a[Len(a)] = 0 THEN BNorm(SubSeq(a, 1, Len(a) - 1))
  ELSE a

RECURSIVE BFromInt(_)
BFromInt(n) == IF n = 0 THEN <<>> ELSE <<n % Base>> \o BFromInt(n \div Base)

RECURSIVE BToInt(_)
BToInt(a) == IF a = <<>> THEN 0 ELSE Head(a) + Base * BToInt(Tail(a))

Limb0(a) == IF a = <<>> THEN 0 ELSE Head(a)

Rest(a) == IF a = <<>> THEN <<>> ELSE Tail(a)

RECURSIVE BAddC(_, _, _)
BAddS(a, b, s) == <<s % Base>> \o BAddC(Rest(a), Rest(b), s \div Base)

BAddC(a, b, c) ==
  IF a = <<>> /\ b = <<>> THEN (IF c = 0 THEN <<>> ELSE <<c>>)
  ELSE BAddS(a, b, Limb0(a) + Limb0(b) + c)

BAdd(a, b) == BAddC(a, b, 0)

\* a - b - c for a >= b + c, limb by limb with borrow c
RECURSIVE BSubC(_, _, _)
BSubD(a, b, d) ==
  <<IF d < 0 THEN d + Base ELSE d>> \o BSubC(Tail(a), Rest(b), IF d < 0 THEN 1 ELSE 0)

BSubC(a, b, c) == IF a = <<>> THEN <<>> ELSE BSubD(a, b, Head(a) - Limb0(b) - c)

BSub(a, b) == BNorm(BSubC(a, b, 0))

\* -1, 0, 1 as a < b, a = b, a > b (both normalised)
RECURSIVE BCmpFrom(_, _, _)
BCmpFrom(a, b, i) ==
  IF i = 0 THEN 0
  ELSE IF a[i] < b[i] THEN -1
  ELSE IF a[i] > b[i] THEN 1
  ELSE BCmpFrom(a, b, i - 1)

BCmp(a, b) ==
  IF Len(a) < Len(b) THEN -1
  ELSE IF Len(a) > Len(b) THEN 1
  ELSE BCmpFrom(a, b, Len(a))

\* a * k for 0 <= k < Base
RECURSIVE BMulSmallC(_, _, _)
BMulSmallP(a, k, p) == <<p % Base>> \o BMulSmallC(Tail(a), k, p \div Base)

BMulSmallC(a, k, c) ==
  IF a = <<>> THEN (IF c = 0 THEN <<>> ELSE <<c>>)
  ELSE BMulSmallP(a, k, Head(a) * k + c)

BMulSmall(a, k) == IF k = 0 THEN <<>> ELSE BMulSmallC(a, k, 0)

\* quotient and remainder of a by 0 < k < Base, from the high limb down
RECURSIVE BDivSmallFrom(_, _, _, _)
BDivSmallPut(rest, digit) == [q |-> rest.q \o <<digit>>, r |-> rest.r]

BDivSmallCur(a, k, i, cur) == BDivSmallPut(BDivSmallFrom(a, k, i - 1, cur % k), cur \div k)

BDivSmallFrom(a, k, i, r) ==
  IF i = 0 THEN [q |-> <<>>, r |-> r] ELSE BDivSmallCur(a, k, i, r * Base + a[i])

BDivSmallNorm(d) == [q |-> BNorm(d.q), r |-> d.r]

BDivSmall(a, k) == BDivSmallNorm(BDivSmallFrom(a, k, Len(a), 0))

BZeros(n) == [i \in 1..n |-> 0]

BShl(a, s) ==
  IF a = <<>> THEN <<>>
  ELSE BZeros(s \div 15) \o BMulSmall(a, Pow2(s % 15))

BShr(a, s) ==
  IF s \div 15 >= Len(a) THEN <<>>
  ELSE BDivSmall(SubSeq(a, (s \div 15) + 1, Len(a)), Pow2(s % 15)).q

RECURSIVE IntBits(_)
IntBits(n) == IF n = 0 THEN 0 ELSE 1 + IntBits(n \div 2)

BBits(a) == IF a = <<>> THEN 0 ELSE 15 * (Len(a) - 1) + IntBits(a[Len(a)])

BOdd(a) == a # <<>> /\ Head(a) % 2 = 1

RECURSIVE BMulFrom(_, _, _)
BMulFrom(a, b, i) ==
  IF i > Len(b) THEN <<>>
  ELSE BAdd(BZeros(i - 1) \o BMulSmall(a, b[i]), BMulFrom(a, b, i + 1))

BMul(a, b) == IF a = <<>> \/ b = <<>> THEN <<>> ELSE BNorm(BMulFrom(a, b, 1))

\* the 28 low bits of a, and the digit of a at position i in base 2^28
Low28(a) ==
  IF a = <<>> THEN 0
  ELSE IF Len(a) = 1 THEN a[1]
  ELSE a[1] + Base * (a[2] % (2^13))

Digit28(a, i) == Low28(BShr(a, 28 * i))

\* floor of the square root of an integer below 2^28, one bit at a time
RECURSIVE ISqrtFrom(_, _, _)
ISqrtFrom(a, r, b) ==
  IF b < 0 THEN r
  ELSE ISqrtFrom(a, IF (r + 2^b) * (r + 2^b) <= a THEN r + 2^b ELSE r, b - 1)

ISqrt(a) == ISqrtFrom(a, 0, 13)

\* the root s and the remainder r of two digits, from the root s0 of the high
\* digit: the next half digit of the root is the quotient q of the remainder
\* so far by 2 * s0, and it is at most one too large
SqrtFixed(s, r) == IF r < 0 THEN [s |-> s - 1, r |-> r + 2 * s - 1] ELSE [s |-> s, r |-> r]

SqrtHalf(s0, n, c0) ==
  SqrtFixed(s0 * (2^14) + (n \div (2 * s0)),
            (n % (2 * s0)) * (2^14) + c0 - (n \div (2 * s0)) * (n \div (2 * s0)))

SqrtHigh(a3, a2, s0) ==
  SqrtHalf(s0, (a3 - s0 * s0) * (2^14) + (a2 \div (2^14)), a2 % (2^14))

\* quotient and remainder by d of rem followed by the low b + 1 bits of a,
\* one bit at a time, for rem < d
RECURSIVE LongDiv(_, _, _, _, _)
LongDivBit(cur, a, d, b, q) ==
  IF cur >= d THEN LongDiv(cur - d, a, d, b - 1, 2 * q + 1)
  ELSE LongDiv(cur, a, d, b - 1, 2 * q)

LongDiv(rem, a, d, b, q) ==
  IF b < 0 THEN [q |-> q, r |-> rem]
  ELSE LongDivBit(2 * rem + ((a \div (2^b)) % 2), a, d, b, q)

BFromDigits(hi, lo) == BAdd(BShl(BFromInt(hi), 28), BFromInt(lo))

SqrtLowFixed(s1, q, rest, q2) ==
  IF BCmp(rest, q2) < 0 THEN BSub(BFromDigits(s1, q), <<1>>) ELSE BFromDigits(s1, q)

SqrtLowOf(s1, d, a0) == SqrtLowFixed(s1, d.q, BFromDigits(d.r, a0), BMul(BFromInt(d.q), BFromInt(d.q)))

SqrtLow(h, a1, a0) ==
  SqrtLowOf(h.s, LongDiv(h.r % (2 * h.s), a1, 2 * h.s, 27, h.r \div (2 * h.s)), a0)

\* floor of the square root of x, for x of 111 or 112 bits: four digits in
\* base 2^28, the root of the two high digits first
BSqrt(x) ==
  SqrtLow(SqrtHigh(Digit28(x, 3), Digit28(x, 2), ISqrt(Digit28(x, 3))),
          Digit28(x, 1), Digit28(x, 0))

(***************************************************************************)
(* binary64.  A finite value is neg, m, e standing for (+/-) m * 2^e with  *)
(* m of exactly MantissaBits bits, or zero (m empty, e = 0).               *)
(***************************************************************************)
MantissaBits == 53

NaN == [nan |-> TRUE]

FZero == [nan |-> FALSE, neg |-> FALSE, m |-> <<>>, e |-> 0]

FPack(neg, m, e) == [nan |-> FALSE, neg |-> neg, m |-> m, e |-> e]

\* q * 2^e for q of at most MantissaBits + 1 bits (the carry of a rounding up)
FCarry(neg, q, e) ==
  IF BBits(q) > MantissaBits THEN FPack(neg, BShr(q, 1), e + 1) ELSE FPack(neg, q, e)

\* whether n, cut to its high bits q above bit s, rounds up: c compares the
\* bits cut off with half a unit of q
FTieUp(c, q) == c > 0 \/ (c = 0 /\ BOdd(q))

FRoundsUp(n, s, q) == FTieUp(BCmp(BSub(n, BShl(q, s)), BShl(<<1>>, s - 1)), q)

FRoundCut(neg, n, e, s, q) ==
  FCarry(neg, IF FRoundsUp(n, s, q) THEN BAdd(q, <<1>>) ELSE q, e + s)

FRoundBits(neg, n, e, L) ==
  IF L = 0 THEN FZero
  ELSE IF L <= MantissaBits
  THEN FPack(neg, BShl(n, MantissaBits - L), e - (MantissaBits - L))
  ELSE FRoundCut(neg, n, e, L - MantissaBits, BShr(n, L - MantissaBits))

\* the exact value (+/-) n * 2^e rounded to nearest, ties to even
FRound(neg, n, e) == FRoundBits(neg, n, e, BBits(n))

FFromInt(n) == FRound(n < 0, BFromInt(IF n < 0 THEN -n ELSE n), 0)

FNeg(x) == IF x.nan \/ x.m = <<>> THEN x ELSE [x EXCEPT !.neg = ~x.neg]

\* X * 2^e0 (sign xneg) plus Y * 2^e0 (sign yneg), c comparing X with Y
FAddSigned(xneg, X, yneg, Y, e0, c) ==
  FRound(IF xneg = yneg \/ c >= 0 THEN xneg ELSE yneg,
         IF xneg = yneg THEN BAdd(X, Y)
         ELSE IF c >= 0 THEN BSub(X, Y) ELSE BSub(Y, X),
         e0)

FAddAligned(xneg, X, yneg, Y, e0) == FAddSigned(xneg, X, yneg, Y, e0, BCmp(X, Y))

FAddAt(x, y, e0) == FAddAligned(x.neg, BShl(x.m, x.e - e0), y.neg, BShl(y.m, y.e - e0), e0)

\* x + y
FAdd(x, y) ==
  IF x.nan \/ y.nan THEN NaN
  ELSE IF x.m = <<>> THEN y
  ELSE IF y.m = <<>> THEN x
  ELSE FAddAt(x, y, IF x.e < y.e THEN x.e ELSE y.e)

FSub(x, y) == FAdd(x, FNeg(y))

FMul(x, y) ==
  IF x.nan \/ y.nan THEN NaN
  ELSE FRound(x.neg # y.neg, BMul(x.m, y.m), x.e + y.e)

\* the quotient d.q with a sticky bit below it for the remainder d.r
FSticky(q, exact) == BAdd(BShl(q, 1), IF exact THEN <<>> ELSE <<1>>)

FDivQuot(neg, d, e) == FRound(neg, FSticky(d.q, d.r = 0), e)

\* x / n for an integer n; 0 / 0 is NaN (nothing else is divided by 0)
FDivInt(x, n) ==
  IF x.nan \/ n = 0 THEN NaN
  ELSE FDivQuot(x.neg # (n < 0), BDivSmall(BShl(x.m, 30), IF n < 0 THEN -n ELSE n), x.e - 31)

FSqrtRoot(n, r, e) == FRound(FALSE, FSticky(r, BCmp(BMul(r, r), n) = 0), e)

FSqrtOf(n, e) == FSqrtRoot(n, BSqrt(n), e)

FSqrtShift(x, k) == FSqrtOf(BShl(x.m, k), ((x.e - k) \div 2) - 1)

\* Math.sqrt
FSqrt(x) ==
  IF x.nan THEN NaN
  ELSE IF x.m = <<>> THEN x
  ELSE IF x.neg THEN NaN
  ELSE FSqrtShift(x, IF x.e % 2 = 0 THEN 58 ELSE 59)

\* -1, 0, 1 as x < y, x = y, x > y, for finite x and y: the signs, then the
\* exponents, then the significands
FSign(x) == IF x.m = <<>> THEN 0 ELSE IF x.neg THEN -1 ELSE 1

FCmpMagnitude(x, y) ==
  IF x.e < y.e THEN -1 ELSE IF x.e > y.e THEN 1 ELSE BCmp(x.m, y.m)

FCmp(x, y) ==
  IF FSign(x) # FSign(y) THEN (IF FSign(x) < FSign(y) THEN -1 ELSE 1)
  ELSE IF FSign(x) = 0 THEN 0
  ELSE FSign(x) * FCmpMagnitude(x, y)

\* x <= y: false when either is NaN
FLe(x, y) == ~x.nan /\ ~y.nan /\ FCmp(x, y) <= 0

\* Math.max, Math.min: NaN if either is NaN
FMax(x, y) == IF x.nan \/ y.nan THEN NaN ELSE IF FCmp(x, y) >= 0 THEN x ELSE y

FMin(x, y) == IF x.nan \/ y.nan THEN NaN ELSE IF FCmp(x, y) <= 0 THEN x ELSE y

(***************************************************************************)
(* Decimal numerals as text: kind "num" with a sign, the whole part and    *)
(* the fraction digits, or kind "text" for anything that is not a numeral  *)
(* (the text "NaN" that toFixed gives for NaN, a non-numeric field).       *)
(***************************************************************************)
NotANumeral == [kind |-> "text", neg |-> FALSE, whole |-> 0, frac |-> <<>>]

Numeral(neg, whole, frac) == [kind |-> "num", neg |-> neg, whole |-> whole, frac |-> frac]

RECURSIVE DigitsValue(_, _)
DigitsValue(acc, ds) == IF ds = <<>> THEN acc ELSE DigitsValue(10 * acc + Head(ds), Tail(ds))

RECURSIVE Pow10(_)
Pow10(k) == IF k = 0 THEN 1 ELSE 10 * Pow10(k - 1)

\* parseFloat: the binary64 value nearest to the numeral, NaN for a non-numeral
parseFloat(t) ==
  IF t.kind # "num" THEN NaN
  ELSE FDivInt(FRound(t.neg, BFromInt(DigitsValue(t.whole, t.frac)), 0),
               Pow10(Len(t.frac)))

\* Number.prototype.toFixed(2): the integer n with n / 100 nearest to the exact
\* value of x, the larger n on a tie; "NaN" for NaN
CentsNumeral(neg, n) == Numeral(neg, n \div 100, <<(n % 100) \div 10, n % 10>>)

NearestCents(x) ==
  IF x.m = <<>> THEN 0
  ELSE IF x.e >= 0 THEN BToInt(BShl(BMulSmall(x.m, 100), x.e))
  ELSE BToInt(BShr(BAdd(BMulSmall(x.m, 200), BShl(<<1>>, -x.e)), 1 - x.e))

toFixed2(x) == IF x.nan THEN NotANumeral ELSE CentsNumeral(x.neg, NearestCents(x))

RECURSIVE StripZeros(_)
StripZeros(ds) ==
  IF ds # <<>> /\ ds[Len(ds)] = 0 THEN StripZeros(SubSeq(ds, 1, Len(ds) - 1)) ELSE ds

\* Number to string in a template literal, for a value that is the binary64
\* nearest to a numeral of at most two fraction digits: the shortest numeral
\* that reads back as the value, which is that numeral without trailing zeros
StripNumeral(t) == IF t.kind # "num" THEN t ELSE [t EXCEPT !.frac = StripZeros(t.frac)]

NumberToString(x) == StripNumeral(toFixed2(x))


(***************************************************************************)
(* Date.  A Date value is an absolute time: whole minutes since            *)
(* 1970-01-01T00:00Z and the seconds within the minute, or the invalid     *)
(* date.  tz is the offset of a process's local time from UTC, in minutes. *)
(***************************************************************************)
InvalidDate == [valid |-> FALSE, min |-> 0, s |-> 0]

\* days since 1970-01-01 of the proleptic Gregorian date y-m-d
DayOfEra(yoe, doy) == yoe * 365 + yoe \div 4 - yoe \div 100 + doy

DaysInEra(era, yoe, doy) == era * 146097 + DayOfEra(yoe, doy) - 719468

\* y1 is the year that starts in March, mp the month counted from March
DaysFromMarch(y1, mp, d) ==
  DaysInEra(y1 \div 400, y1 % 400, (153 * mp + 2) \div 5 + d - 1)

DaysFromCivil(y, m, d) == DaysFromMarch(IF m <= 2 THEN y - 1 ELSE y, (m + 9) % 12, d)

\* the Gregorian date of a day number
CivilOfMonth(y1, doy, mp) ==
  [y  |-> IF mp < 10 THEN y1 ELSE y1 + 1,
   mo |-> IF mp < 10 THEN mp + 3 ELSE mp - 9,
   d  |-> doy - (153 * mp + 2) \div 5 + 1]

CivilOfDay(y1, doy) == CivilOfMonth(y1, doy, (5 * doy + 2) \div 153)

CivilOfYear(era, doe, yoe) ==
  CivilOfDay(yoe + era * 400, doe - (365 * yoe + yoe \div 4 - yoe \div 100))

CivilOfEra(era, doe) ==
  CivilOfYear(era, doe, (doe - doe \div 1460 + doe \div 36524 - doe \div 146096) \div 365)

CivilFromDays(z0) == CivilOfEra((z0 + 719468) \div 146097, (z0 + 719468) % 146097)

\* new Date(year, monthIndex, day, hour, minute, second): the fields are local
\* time; a monthIndex of 12 and a day of 0 carry into the neighbouring month
TimeOf(days, hour, minute, second, tz) ==
  [valid |-> TRUE, min |-> days * 1440 + hour * 60 + minute - tz, s |-> second]

MakeDate(year, monthIndex, day, hour, minute, second, tz) ==
  TimeOf(DaysFromCivil(year + monthIndex \div 12, (monthIndex % 12) + 1, 1) + (day - 1),
         hour, minute, second, tz)

\* the calendar fields of an absolute time seen at offset tz
FieldsOf(c, lm, s) ==
  [y |-> c.y, mo |-> c.mo, d |-> c.d, h |-> (lm % 1440) \div 60, mi |-> lm % 60, s |-> s]

FieldsAt(t, tz) == FieldsOf(CivilFromDays((t.min + tz) \div 1440), t.min + tz, t.s)

\* an integer-valued number, or NaN
IntNum(v) == [nan |-> FALSE, v |-> v]

NaNInt == [nan |-> TRUE, v |-> 0]

\* Date.prototype.getDate, getFullYear, getMonth (local time; NaN when invalid)
getDate(t, tz) == IF t.valid THEN IntNum(FieldsAt(t, tz).d) ELSE NaNInt

getFullYear(t, tz) == IF t.valid THEN IntNum(FieldsAt(t, tz).y) ELSE NaNInt

getMonth(t, tz) == IF t.valid THEN IntNum(FieldsAt(t, tz).mo - 1) ELSE NaNInt

\* Date.prototype.toISOString: the text of the UTC fields
BadDateText == [iso |-> FALSE, y |-> 0, mo |-> 0, d |-> 0, h |-> 0, mi |-> 0, s |-> 0]

IsoOf(f) ==
  [iso |-> TRUE, y |-> f.y, mo |-> f.mo, d |-> f.d, h |-> f.h, mi |-> f.mi, s |-> f.s]

toISOString(t) == IsoOf(FieldsAt(t, 0))

\* new Date(text): the absolute time an ISO-8601 UTC text names, the invalid
\* date for any other text
ParseDate(text) ==
  IF text.iso
  THEN [valid |-> TRUE,
        min |-> DaysFromCivil(text.y, text.mo, text.d) * 1440 + text.h * 60 + text.mi,
        s |-> text.s]
  ELSE InvalidDate

(***************************************************************************)
(* Strings that are compared: sequences of character codes.                *)
(***************************************************************************)
RECURSIVE NatToChars(_)
NatToChars(n) ==
  IF n < 10 THEN <<48 + n>> ELSE NatToChars(n \div 10) \o <<48 + (n % 10)>>

\* Number to string, for an integer-valued number or NaN
IntToString(x) ==
  IF x.nan THEN <<78, 97, 78>>
  ELSE IF x.v < 0 THEN <<45>> \o NatToChars(-x.v)
  ELSE NatToChars(x.v)

\* parseInt of a string of decimal digits, NaN for any other
RECURSIVE DigitsToNat(_, _)
DigitsToNat(acc, cs) ==
  IF cs = <<>> THEN acc ELSE DigitsToNat(10 * acc + (Head(cs) - 48), Tail(cs))

parseInt(cs) ==
  IF cs # <<>> /\ \A i \in 1..Len(cs) : cs[i] \in 48..57 THEN IntNum(DigitsToNat(0, cs))
  ELSE NaNInt

\* String.prototype.padStart(2, '0')
padStart2(cs) == IF Len(cs) < 2 THEN [i \in 1..(2 - Len(cs)) |-> 48] \o cs ELSE cs

\* String.prototype.localeCompare on strings of digits, '-' and letters: the
\* first differing character decides, '-' before digits before letters, and a
\* proper prefix comes first
RECURSIVE localeCompare(_, _)
localeCompare(a, b) ==
  IF a = <<>> THEN (IF b = <<>> THEN 0 ELSE -1)
  ELSE IF b = <<>> THEN 1
  ELSE IF Head(a) < Head(b) THEN -1
  ELSE IF Head(a) > Head(b) THEN 1
  ELSE localeCompare(Tail(a), Tail(b))

\* getMonthName: months[month - 1], undefined outside 1..12
getMonthName(month) ==
  IF month.nan \/ month.v < 1 \/ month.v > 12 THEN "undefined"
  ELSE <<"January", "February", "March", "April", "May", "June", "July",
         "August", "September", "October", "November", "December">>[month.v]


(***************************************************************************)
(* Files.  A file is absent, or a sequence of lines.  A line of the sales  *)
(* file is the header text or a data row of three fields kept as text; the *)
(* report is one header and rows.                                          *)
(***************************************************************************)
SalesHeader == "id,order_id,customer_id,total,date"

ReportHeader ==
  "year,month,month_name,number_of_orders,max_amount,min_amount,sales_average,standard_deviation"

HeaderLine == [kind |-> "header", id |-> 0, total |-> NotANumeral, date |-> BadDateText]

RowLine(id, total, date) == [kind |-> "row", id |-> id, total |-> total, date |-> date]

NoFile == [exists |-> FALSE, lines |-> <<>>]

File(lines) == [exists |-> TRUE, lines |-> lines]

NoReport == [exists |-> FALSE, header |-> "", rows |-> <<>>]

\* csv-parser: the first line names the columns, every later line is a row
\* (a later header line is a row whose total and date are not parseable)
DataRows(file) == IF file.lines = <<>> THEN <<>> ELSE Tail(file.lines)

(***************************************************************************)
(* SalesProcessor (src/src/main.ts)                                        *)
(***************************************************************************)
\* Math.pow(value - mean, 2) for each value, summed from 0 left to right
FSquare(d) == FMul(d, d)

RECURSIVE SumSquaredDifferences(_, _, _)
SumSquaredDifferences(values, mean, i) ==
  IF i = 0 THEN FZero
  ELSE FAdd(SumSquaredDifferences(values, mean, i - 1), FSquare(FSub(values[i], mean)))

\* the deviation over the whole population: the divisor is the length
PopulationDeviation(values, mean) ==
  IF Len(values) <= 1 THEN FZero
  ELSE FSqrt(FDivInt(SumSquaredDifferences(values, mean, Len(values)), Len(values)))

calculateStandardDeviation(values, mean) ==
  IF Len(values) <= 1 THEN FZero
  ELSE FSqrt(FDivInt(SumSquaredDifferences(values, mean, Len(values)), Len(values) - 1))

\* the year, the month and the bucket key of a date read at offset tz
MonthOf(m) == IF m.nan THEN NaNInt ELSE IntNum(m.v + 1)

KeyOf(year, month) == IntToString(year) \o <<45>> \o padStart2(IntToString(month))

\* the position of key in the map (a sequence of entries in insertion order), or 0
MapIndex(map, key) ==
  IF \E i \in 1..Len(map) : map[i].key = key
  THEN CHOOSE i \in 1..Len(map) : map[i].key = key
  ELSE 0

NewStats(year, month, total) ==
  [year |-> year, month |-> month, numberOfOrders |-> 0,
   maxAmount |-> total, minAmount |-> total, totalAmount |-> FZero,
   salesAverage |-> FZero, standardDeviation |-> FZero,
   amounts |-> <<>>, hasAmounts |-> TRUE]

\* the updates of one bucket with numberOfOrders set rather than incremented
UpdateStatsOnce(st, total) ==
  [st EXCEPT !.numberOfOrders = 1,
             !.totalAmount = FAdd(@, total),
             !.maxAmount = FMax(@, total),
             !.minAmount = FMin(@, total),
             !.amounts = IF st.hasAmounts THEN Append(@, total) ELSE @]

\* the updates of one bucket; amounts.push throws on deleted amounts, after
\* the counters were updated
UpdateStats(st, total) ==
  [st EXCEPT !.numberOfOrders = @ + 1,
             !.totalAmount = FAdd(@, total),
             !.maxAmount = FMax(@, total),
             !.minAmount = FMin(@, total),
             !.amounts = IF st.hasAmounts THEN Append(@, total) ELSE @]

FoldAt(map, i, total) ==
  [map |-> [map EXCEPT ![i].stats = UpdateStats(@, total)],
   threw |-> ~map[i].stats.hasAmounts]

FoldInto(map, key, total) == FoldAt(map, MapIndex(map, key), total)

\* a fold that sets a new bucket for every record, without the has(key) test
FoldKeyedEager(map, year, month, key, total) ==
  FoldInto(Append(map, [key |-> key, stats |-> NewStats(year, month, total)]),
           key, total)

FoldKeyed(map, year, month, key, total) ==
  FoldInto(IF MapIndex(map, key) = 0
           THEN Append(map, [key |-> key, stats |-> NewStats(year, month, total)])
           ELSE map,
           key, total)

FoldDated(map, year, month, total) == FoldKeyed(map, year, month, KeyOf(year, month), total)

FoldAtTime(map, date, tz, total) ==
  FoldDated(map, getFullYear(date, tz), MonthOf(getMonth(date, tz)), total)

\* processSalesRecord: the map after the call, and whether the call threw
processSalesRecord(map, record, tz) == FoldAtTime(map, ParseDate(record.date), tz, record.total)

\* the data handler's record: parseFloat of the total field, the date as read
ParseRow(raw) == [id |-> raw.id, total |-> parseFloat(raw.total), date |-> raw.date]

\* finalizeStats from entry i on: the map after the call, and whether it threw
\* (values.length on deleted amounts throws after salesAverage was assigned)
RECURSIVE finalizeFrom(_, _)
FinalStats(st, avg) ==
  [st EXCEPT !.salesAverage = avg,
             !.standardDeviation = calculateStandardDeviation(st.amounts, avg),
             !.amounts = <<>>,
             !.hasAmounts = FALSE]

finalizeEntry(map, i, st, avg) ==
  IF ~st.hasAmounts
  THEN [map |-> [map EXCEPT ![i].stats.salesAverage = avg], threw |-> TRUE]
  ELSE finalizeFrom([map EXCEPT ![i].stats = FinalStats(st, avg)], i + 1)

finalizeFrom(map, i) ==
  IF i > Len(map) THEN [map |-> map, threw |-> FALSE]
  ELSE finalizeEntry(map, i, map[i].stats,
                     FDivInt(map[i].stats.totalAmount, map[i].stats.numberOfOrders))

finalizeStats(map) == finalizeFrom(map, 1)

\* Array.prototype.sort by keyA.localeCompare(keyB): e goes before the first
\* entry it compares less than
RECURSIVE InsertByKey(_, _)
InsertByKey(sorted, e) ==
  IF sorted = <<>> THEN <<e>>
  ELSE IF localeCompare(e.key, Head(sorted).key) < 0 THEN <<e>> \o sorted
  ELSE <<Head(sorted)>> \o InsertByKey(Tail(sorted), e)

RECURSIVE SortByKey(_)
SortByKey(entries) ==
  IF entries = <<>> THEN <<>>
  ELSE InsertByKey(SortByKey(SubSeq(entries, 1, Len(entries) - 1)), entries[Len(entries)])

ReportRow(stats) ==
  [year |-> IntToString(stats.year),
   month |-> IntToString(stats.month),
   month_name |-> getMonthName(stats.month),
   number_of_orders |-> stats.numberOfOrders,
   max_amount |-> toFixed2(stats.maxAmount),
   min_amount |-> toFixed2(stats.minAmount),
   sales_average |-> toFixed2(stats.salesAverage),
   standard_deviation |-> toFixed2(stats.standardDeviation)]

ReportOf(sorted) ==
  [exists |-> TRUE, header |-> ReportHeader,
   rows |-> [i \in 1..Len(sorted) |-> ReportRow(sorted[i].stats)]]

statsToCSV(map) == ReportOf(SortByKey(map))

RECURSIVE SumOrders(_, _)
SumOrders(map, i) == IF i = 0 THEN 0 ELSE SumOrders(map, i - 1) + map[i].stats.numberOfOrders

\* getStats: totalMonths, the least and greatest bucket year, totalRecordsProcessed
\* (Math.min and Math.max give NaN when a year is NaN, and NaN === NaN is false)
MinYear(years) ==
  IF \E y \in years : y.nan THEN NaNInt
  ELSE CHOOSE y \in years : \A z \in years : y.v <= z.v

MaxYear(years) ==
  IF \E y \in years : y.nan THEN NaNInt
  ELSE CHOOSE y \in years : \A z \in years : y.v >= z.v

YearRange(minYear, maxYear) ==
  IF ~minYear.nan /\ minYear = maxYear THEN IntToString(minYear)
  ELSE IntToString(minYear) \o <<45>> \o IntToString(maxYear)

YearsOf(map) == {map[i].stats.year : i \in 1..Len(map)}

getStats(map) ==
  IF Len(map) = 0
  THEN [totalMonths |-> 0, yearRange |-> <<>>, totalRecordsProcessed |-> 0]
  ELSE [totalMonths |-> Len(map),
        yearRange |-> YearRange(MinYear(YearsOf(map)), MaxYear(YearsOf(map))),
        totalRecordsProcessed |-> SumOrders(map, Len(map))]

\* process() on a new SalesProcessor over data rows, with no failure of the
\* streams: the map when the stream ends, and the report written
RECURSIVE FoldRows(_, _, _, _)
FoldRows(map, rows, i, tz) ==
  IF i > Len(rows) THEN map
  ELSE FoldRows(processSalesRecord(map, ParseRow(rows[i]), tz).map, rows, i + 1, tz)

ReportFor(rows, tz) == statsToCSV(finalizeStats(FoldRows(<<>>, rows, 1, tz)).map)

(***************************************************************************)
(* SalesDataGenerator (src/src/generator.ts)                               *)
(***************************************************************************)
startYear == 2020

endYear == 2025

\* randomInt(min, max): Math.floor(Math.random() * (max - min + 1)) + min takes
\* every integer of min..max as Math.random() ranges over [0, 1)
randomInt(min, max) == min..max

\* the bounds generateBatch passes to randomFloat
minTotal == 500

maxTotal == 1800

\* a value drawn over one more than the range, as randomInt draws
randomValueInclusive(u, min, max) == FAdd(FMul(u, FFromInt(max - min + 1)), FFromInt(min))

\* the value of randomFloat for Math.random() = u: u * (max - min) + min
randomValue(u, min, max) == FAdd(FMul(u, FFromInt(max - min)), FFromInt(min))

\* randomFloat: the drawn value printed to two decimals and read back
randomFloat(value) == parseFloat(toFixed2(value))

\* the last day of the month: new Date(year, month, 0).getDate()
daysInMonth(year, month, tz) == getDate(MakeDate(year, month, 0, 0, 0, 0, tz), tz).v

\* randomDate for the drawn fields, in a process at offset tz
randomDate(year, month, day, hour, minute, second, tz) ==
  toISOString(MakeDate(year, month - 1, day, hour, minute, second, tz))

\* whether d holds fields randomDate can draw in a process at offset tz
IsDateDraw(d, tz) ==
  /\ d.year \in randomInt(startYear, endYear)
  /\ d.month \in randomInt(1, 12)
  /\ d.day \in randomInt(1, daysInMonth(d.year, d.month, tz))
  /\ d.hour \in randomInt(0, 23)
  /\ d.minute \in randomInt(0, 59)
  /\ d.second \in randomInt(0, 59)

\* a batch whose ids start from 1 whatever startId is
generateBatchFromOne(startId, count, draws, tz) ==
  [i \in 1..count |->
     [id |-> i,
      total |-> randomFloat(draws[i].value),
      date |-> randomDate(draws[i].date.year, draws[i].date.month, draws[i].date.day,
                          draws[i].date.hour, draws[i].date.minute, draws[i].date.second, tz)]]

\* generateBatch: count records with ids from startId on; draws[i] holds the
\* value and the date fields drawn for the i-th (order_id and customer_id are
\* drawn and written too; nothing reads them back)
generateBatch(startId, count, draws, tz) ==
  [i \in 1..count |->
     [id |-> startId + i - 1,
      total |-> randomFloat(draws[i].value),
      date |-> randomDate(draws[i].date.year, draws[i].date.month, draws[i].date.day,
                          draws[i].date.hour, draws[i].date.minute, draws[i].date.second, tz)]]

\* one line of recordsToCSV: the fields through template-literal conversion
recordToCSV(record) == RowLine(record.id, NumberToString(record.total), record.date)

recordsToCSV(records) == [i \in 1..Len(records) |-> recordToCSV(records[i])]


(***************************************************************************)
(* Bounds of the model and the inputs drawn within them.                   *)
(***************************************************************************)
\* data rows of an input store
MaxRows == 3

\* process() calls in one behaviour
MaxRuns == 2

\* totalRecords and batchSize of a generator
MaxRecords == 3

MaxBatch == 2

\* offsets from UTC, in minutes, of the zones a process may run in
TzOffsets == {-60, 0, 60}

Money(whole, d1, d2) == Numeral(FALSE, whole, <<d1, d2>>)

IsoText(y, mo, d, h, mi, s) ==
  [iso |-> TRUE, y |-> y, mo |-> mo, d |-> d, h |-> h, mi |-> mi, s |-> s]

MidMarch == IsoText(2021, 3, 15, 12, 0, 0)

\* rows an input store may hold: three totals in one month, a row in another
\* month close to the month's start, a total that is no numeral, a date that
\* is no date
ValidRows ==
  { RowLine(1, Money(600, 0, 0), MidMarch),
    RowLine(1, Money(900, 0, 0), MidMarch),
    RowLine(1, Money(1200, 0, 0), MidMarch),
    RowLine(1, Money(750, 2, 5), IsoText(2021, 4, 1, 0, 30, 0)) }

MalformedRows ==
  { RowLine(1, NotANumeral, MidMarch),
    RowLine(1, Money(900, 0, 0), BadDateText) }

\* rows whose average lies half-way between two cents
TieRows ==
  { RowLine(1, Money(600, 0, 0), MidMarch),
    RowLine(1, Money(1200, 0, 0), MidMarch),
    RowLine(1, Money(500, 0, 1), MidMarch) }

\* rows of years written with three and with four digits
YearRows ==
  { RowLine(1, Money(900, 0, 0), IsoText(999, 6, 15, 12, 0, 0)),
    RowLine(1, Money(900, 0, 0), IsoText(2021, 11, 15, 12, 0, 0)),
    RowLine(1, Money(900, 0, 0), MidMarch) }

SeqsUpTo(S, n) == UNION {[1..k -> S] : k \in 0..n}

\* the input stores over a set of rows: absent, empty, or the header and up
\* to n rows
StoresOver(rows, n) ==
  {NoFile, File(<<>>)} \cup {File(<<HeaderLine>> \o r) : r \in SeqsUpTo(rows, n)}

\* values Math.random() * (max - min) + min may take, and calendar fields drawn
ValueDraws ==
  { parseFloat(Numeral(FALSE, 500, <<5, 0, 4>>)),
    parseFloat(Numeral(FALSE, 1799, <<9, 9, 6>>)) }

DateDraws ==
  { [year |-> startYear, month |-> 1, day |-> 1, hour |-> 0, minute |-> 0, second |-> 0],
    [year |-> endYear, month |-> 12, day |-> 31, hour |-> 23, minute |-> 59, second |-> 59] }

RecordDraws == [value : ValueDraws, date : DateDraws]

\* values of Math.random(): 0, the least and the greatest value of [0, 1),
\* the multiples of 1/64, and values whose totals lie next to the ends
UniformDraws ==
  {FRound(FALSE, BFromInt(k), -6) : k \in 0..63}
    \cup {FRound(FALSE, BFromInt(k), -20) : k \in 1..8}
    \cup {FRound(FALSE, BFromInt((2^20) - k), -20) : k \in 1..8}
    \cup {FPack(FALSE, BShl(<<1>>, 52), -105),
          FPack(FALSE, BSub(BShl(<<1>>, 53), <<1>>), -53)}

UniformRecordDraws ==
  [value : {randomValue(u, minTotal, maxTotal) : u \in UniformDraws}, date : DateDraws]

(***************************************************************************)
(* State                                                                   *)
(***************************************************************************)
VARIABLES
  salesFile,        \* the sales file (generator output, processor input)
  reportFile,       \* the report file
  totalRecords,     \* SalesDataGenerator.totalRecords
  batchSize,        \* SalesDataGenerator.batchSize
  genTz,            \* offset of the generating process
  gpc,              \* where generate() stands
  processed,        \* generate(): records acknowledged as written
  pending,          \* generate(): the lines of the write awaiting its callback
  genError,         \* generate(): the error its promise rejected with, if any
  procTz,           \* offset of the aggregating process
  monthlyStats,     \* SalesProcessor.monthlyStats, entries in insertion order
  ppc,              \* where process() stands
  cursor,           \* process(): the next data row the stream delivers
  recordsProcessed, \* process(): recordsProcessed
  calls,            \* process() calls made on this SalesProcessor
  runLog            \* how each process() call ended and what it wrote

fileVars == <<salesFile, reportFile>>

genVars == <<totalRecords, batchSize, genTz, gpc, processed, pending, genError>>

procVars == <<procTz, monthlyStats, ppc, cursor, recordsProcessed, calls, runLog>>

vars == <<fileVars, genVars, procVars>>

GenIdle ==
  /\ totalRecords = 0 /\ batchSize = 1 /\ genTz = 0
  /\ gpc = "idle" /\ processed = 0 /\ pending = <<>> /\ genError = "none"

ProcIdle ==
  /\ procTz = 0 /\ monthlyStats = <<>> /\ ppc = "idle" /\ cursor = 0
  /\ recordsProcessed = 0 /\ calls = 0 /\ runLog = <<>>

(***************************************************************************)
(* process()                                                               *)
(***************************************************************************)
RunEntry(outcome, report) == [call |-> calls, outcome |-> outcome, report |-> report]

CanCall == ppc \in {"idle", "resolved", "rejected"} /\ Len(runLog) < MaxRuns

\* process() that goes on without the input file and writes an empty report
ProcessNotFoundWrites ==
  /\ CanCall
  /\ ~salesFile.exists
  /\ calls' = calls + 1
  /\ ppc' = "resolved"
  /\ reportFile' = [exists |-> TRUE, header |-> ReportHeader, rows |-> <<>>]
  /\ runLog' = Append(runLog, [call |-> calls + 1, outcome |-> "resolved", report |-> reportFile'])
  /\ UNCHANGED <<salesFile, genVars, procTz, monthlyStats, cursor, recordsProcessed>>

\* process() when the input file does not exist: throws before a stream is opened
ProcessNotFound ==
  /\ CanCall
  /\ ~salesFile.exists
  /\ calls' = calls + 1
  /\ ppc' = "rejected"
  /\ runLog' = Append(runLog, [call |-> calls + 1, outcome |-> "notfound", report |-> NoReport])
  /\ UNCHANGED <<fileVars, genVars, procTz, monthlyStats, cursor, recordsProcessed>>

\* process() when it exists: recordsProcessed = 0 and the stream is opened
ProcessOpen ==
  /\ CanCall
  /\ salesFile.exists
  /\ calls' = calls + 1
  /\ ppc' = "reading"
  /\ cursor' = 1
  /\ recordsProcessed' = 0
  /\ UNCHANGED <<fileVars, genVars, procTz, monthlyStats, runLog>>

\* the 'data' handler: a throw inside is caught and logged, the row not counted
Folded(r) ==
  /\ monthlyStats' = r.map
  /\ recordsProcessed' = IF r.threw THEN recordsProcessed ELSE recordsProcessed + 1

OnData ==
  /\ ppc = "reading"
  /\ cursor <= Len(DataRows(salesFile))
  /\ Folded(processSalesRecord(monthlyStats, ParseRow(DataRows(salesFile)[cursor]), procTz))
  /\ cursor' = cursor + 1
  /\ UNCHANGED <<fileVars, genVars, procTz, ppc, calls, runLog>>

\* an 'end' handler that writes the report and leaves the run unsettled
WrittenUnsettled(csvContent) ==
  /\ reportFile' = csvContent
  /\ runLog' = Append(runLog, RunEntry("resolved", csvContent))
  /\ ppc' = "reading"

\* the 'end' handler: finalizeStats, then statsToCSV and writeFileSync and
\* resolve; reject when finalizeStats throws, and then nothing is written
Written(csvContent) ==
  /\ reportFile' = csvContent
  /\ runLog' = Append(runLog, RunEntry("resolved", csvContent))
  /\ ppc' = "resolved"

Rejected ==
  /\ reportFile' = reportFile
  /\ runLog' = Append(runLog, RunEntry("rejected", NoReport))
  /\ ppc' = "rejected"

Finalized(f) ==
  /\ monthlyStats' = f.map
  /\ IF f.threw THEN Rejected ELSE Written(statsToCSV(f.map))

OnEnd ==
  /\ ppc = "reading"
  /\ cursor > Len(DataRows(salesFile))
  /\ Finalized(finalizeStats(monthlyStats))
  /\ UNCHANGED <<salesFile, genVars, procTz, cursor, recordsProcessed, calls>>

\* the read stream emits 'error' while process() is reading. The 'error'
\* listener of process() is attached to the csv parser that pipe() returns,
\* pipe() does not forward the source's errors, and the read stream has no
\* listener of its own: the event is thrown as an uncaught exception, the
\* promise of process() is never settled and no handler runs afterwards
ReadStreamError ==
  /\ ppc = "reading"
  /\ ppc' = "uncaught"
  /\ runLog' = Append(runLog, RunEntry("readerror", NoReport))
  /\ UNCHANGED <<fileVars, genVars, procTz, monthlyStats, cursor, recordsProcessed, calls>>

\* new SalesProcessor(inputPath, outputPath) after a call has settled
NewProcessor ==
  /\ ppc \in {"resolved", "rejected"}
  /\ Len(runLog) < MaxRuns
  /\ monthlyStats' = <<>>
  /\ calls' = 0
  /\ ppc' = "idle"
  /\ UNCHANGED <<fileVars, genVars, procTz, cursor, recordsProcessed, runLog>>

ProcInit(stores) ==
  /\ salesFile \in stores
  /\ reportFile = NoReport
  /\ procTz \in TzOffsets
  /\ monthlyStats = <<>> /\ ppc = "idle" /\ cursor = 0
  /\ recordsProcessed = 0 /\ calls = 0 /\ runLog = <<>>
  /\ GenIdle

Next ==
  \/ ProcessNotFound
  \/ ProcessOpen
  \/ OnData
  \/ OnEnd
  \/ NewProcessor

(***************************************************************************)
(* generate()                                                              *)
(***************************************************************************)
\* Math.min of two integers
Min(a, b) == IF a <= b THEN a ELSE b

\* createWriteStream with flags 'w' empties the file; the header is written
GenerateOpen ==
  /\ gpc = "idle"
  /\ salesFile' = File(<<HeaderLine>>)
  /\ processed' = 0
  /\ gpc' = "loop"
  /\ UNCHANGED <<reportFile, totalRecords, batchSize, genTz, genError, pending, procVars>>

\* a turn of the loop that does not await its write: the batch joins the
\* ones still unacknowledged and the loop goes on
HandedUnawaited(csvData) ==
  /\ pending' = pending \o csvData
  /\ gpc' = "loop"

\* one turn of the while loop up to the awaited write: the batch is generated
\* and handed to the stream
Handed(csvData) ==
  /\ pending' = csvData
  /\ gpc' = "writing"

GenerateBatchOf(drawn) ==
  /\ gpc = "loop"
  /\ processed < totalRecords
  /\ \E draws \in [1..Min(batchSize, totalRecords - processed) -> drawn] :
       /\ \A i \in DOMAIN draws : IsDateDraw(draws[i].date, genTz)
       /\ Handed(recordsToCSV(generateBatch(processed + 1,
                                            Min(batchSize, totalRecords - processed),
                                            draws, genTz)))
  /\ UNCHANGED <<fileVars, totalRecords, batchSize, genTz, genError, processed, procVars>>

GenerateBatch == GenerateBatchOf(RecordDraws)

\* the same turn with the value drawn over the range of Math.random()
GenerateBatchUniform == GenerateBatchOf(UniformRecordDraws)

\* a callback that counts a whole batchSize whatever the batch held
WriteAckWholeBatch ==
  /\ gpc = "writing"
  /\ salesFile' = File(salesFile.lines \o pending)
  /\ processed' = processed + batchSize
  /\ pending' = <<>>
  /\ gpc' = "loop"
  /\ UNCHANGED <<reportFile, totalRecords, batchSize, genTz, genError, procVars>>

\* the write's callback without an error: processed += currentBatchSize
WriteAck ==
  /\ gpc = "writing"
  /\ salesFile' = File(salesFile.lines \o pending)
  /\ processed' = processed + Len(pending)
  /\ pending' = <<>>
  /\ gpc' = "loop"
  /\ UNCHANGED <<reportFile, totalRecords, batchSize, genTz, genError, procVars>>

\* a write callback that notes the error and lets the loop go on: what
\* generate() would do if the callback resolved on error
WriteErrorContinues ==
  /\ gpc = "writing"
  /\ \E k \in 0..Len(pending) : salesFile' = File(salesFile.lines \o SubSeq(pending, 1, k))
  /\ pending' = <<>>
  /\ gpc' = "loop"
  /\ genError' = "write"
  /\ UNCHANGED <<reportFile, totalRecords, batchSize, genTz, processed, procVars>>

\* the write's callback with an error: the promise rejects, generate() logs
\* and rethrows; any leading part of the data may have reached the file
WriteError ==
  /\ gpc = "writing"
  /\ \E k \in 0..Len(pending) : salesFile' = File(salesFile.lines \o SubSeq(pending, 1, k))
  /\ pending' = <<>>
  /\ gpc' = "failed"
  /\ genError' = "write"
  /\ UNCHANGED <<reportFile, totalRecords, batchSize, genTz, processed, procVars>>

\* the loop is left and writeStream.end is called
GenerateClose ==
  /\ gpc = "loop"
  /\ ~(processed < totalRecords)
  /\ gpc' = "closing"
  /\ UNCHANGED <<fileVars, totalRecords, batchSize, genTz, genError, processed, pending, procVars>>

\* the callback of end without an error: generate() resolves
CloseAck ==
  /\ gpc = "closing"
  /\ gpc' = "done"
  /\ UNCHANGED <<fileVars, totalRecords, batchSize, genTz, genError, processed, pending, procVars>>

\* the callback of end with an error: generate() rejects
CloseError ==
  /\ gpc = "closing"
  /\ gpc' = "failed"
  /\ genError' = "close"
  /\ UNCHANGED <<fileVars, totalRecords, batchSize, genTz, processed, pending, procVars>>

\* a generator of totalRecords records in batches of batchSize, in a process
\* at offset genTz, over an output path that may already hold a file
GenInit ==
  /\ salesFile \in {NoFile, File(<<HeaderLine, RowLine(7, Money(900, 0, 0), MidMarch)>>)}
  /\ reportFile = NoReport
  /\ totalRecords \in 0..MaxRecords
  /\ batchSize \in 1..MaxBatch
  /\ genTz \in TzOffsets
  /\ gpc = "idle" /\ processed = 0 /\ pending = <<>> /\ genError = "none"
  /\ ProcIdle

GenNext ==
  \/ GenerateOpen
  \/ GenerateBatch
  \/ WriteAck
  \/ WriteError
  \/ GenerateClose
  \/ CloseAck
  \/ CloseError

SpecGen == GenInit /\ [][GenNext]_vars

\* a generator of one record whose value ranges over the uniform draws
DrawInit == GenInit /\ totalRecords = 1 /\ batchSize = 1

DrawNext ==
  \/ GenerateOpen
  \/ GenerateBatchUniform
  \/ WriteAck
  \/ WriteError
  \/ GenerateClose
  \/ CloseAck
  \/ CloseError

SpecDraw == DrawInit /\ [][DrawNext]_vars

\* input stores that may hold malformed rows
Init == ProcInit(StoresOver(ValidRows \cup MalformedRows, MaxRows))

Spec == Init /\ [][Next]_vars

\* input stores of valid records
ValidInit == ProcInit(StoresOver(ValidRows, MaxRows))

SpecValid == ValidInit /\ [][Next]_vars

\* input stores of one bucket whose rows sum to a tie
TieInit == ProcInit(StoresOver(TieRows, MaxRows + 1))

SpecTie == TieInit /\ [][Next]_vars

\* input stores whose years differ in their number of digits
YearInit == ProcInit(StoresOver(YearRows, MaxRows))

SpecYears == YearInit /\ [][Next]_vars


(***************************************************************************)
(* Properties                                                              *)
(***************************************************************************)
Rows == DataRows(salesFile)

\* a first process() call on a SalesProcessor has resolved
FirstRunResolved == ppc = "resolved" /\ calls = 1

\* C1: after a successful generate() of T records in batches of B >= 1, the
\* file holds the header line and then exactly T data rows whose ids, in file
\* order, are 1, 2, ..., T.
C1_SequentialIds ==
  gpc = "done" =>
    /\ Len(salesFile.lines) = totalRecords + 1
    /\ salesFile.lines[1] = HeaderLine
    /\ \A i \in 1..totalRecords :
         salesFile.lines[i + 1].kind = "row" /\ salesFile.lines[i + 1].id = i

\* a generate() that succeeded with a last batch shorter than the others
C1_Witness ==
  /\ gpc = "done"
  /\ totalRecords > batchSize
  /\ totalRecords % batchSize # 0
  /\ Len(salesFile.lines) = totalRecords + 1

\* C2: after process() completes on T valid records, the numberOfOrders of
\* the buckets sum to T and getStats().totalRecordsProcessed is T.
C2_CountsSumToT ==
  FirstRunResolved =>
    /\ SumOrders(monthlyStats, Len(monthlyStats)) = Len(Rows)
    /\ getStats(monthlyStats).totalRecordsProcessed = Len(Rows)

\* a completed run over MaxRows rows that fell into two buckets
C2_Witness ==
  /\ FirstRunResolved
  /\ Len(Rows) = MaxRows
  /\ Len(monthlyStats) = 2

\* C3: a row with a non-numeric total or an unparseable date is skipped, so
\* the report written equals the report of the input without such rows.
WellFormed(row) == row.total.kind = "num" /\ row.date.iso

C3_MalformedSkipped ==
  FirstRunResolved => reportFile = ReportFor(SelectSeq(Rows, WellFormed), procTz)

\* C4: a process() call made while the input file does not exist fails as
\* not found, opens no read stream, leaves the map as it was and leaves the
\* report file as it was (absent stays absent).
C4_NotFound ==
  [][(calls' = calls + 1 /\ ~salesFile.exists) =>
        /\ ppc' = "rejected"
        /\ runLog'[Len(runLog')].outcome = "notfound"
        /\ monthlyStats' = monthlyStats
        /\ reportFile' = reportFile
        /\ ~reportFile'.exists]_vars

\* a call has failed as not found
C4_Witness ==
  /\ ~salesFile.exists
  /\ runLog # <<>>
  /\ runLog[Len(runLog)].outcome = "notfound"
  /\ ppc = "rejected"

\* C5: two process() calls over the same unchanged input write the same
\* report: what the second writes equals what the first wrote.
C5_RepeatIdentical ==
  (Len(runLog) = 2 /\ runLog[1].outcome = "resolved") =>
    runLog[2].report = runLog[1].report

\* C6: the report does not depend on the order of the data rows: every
\* permutation of the rows of a valid input gives the report written.
C6_OrderIndependent ==
  FirstRunResolved =>
    \A p \in Permutations(1..Len(Rows)) :
      ReportFor([i \in 1..Len(Rows) |-> Rows[p[i]]], procTz) = reportFile

\* C7: in every row of a report written, min_amount <= sales_average <=
\* max_amount and standard_deviation >= 0, the fields read as numbers.
RowInRange(row) ==
  /\ FLe(parseFloat(row.min_amount), parseFloat(row.sales_average))
  /\ FLe(parseFloat(row.sales_average), parseFloat(row.max_amount))
  /\ FLe(FZero, parseFloat(row.standard_deviation))

C7_RowsInRange ==
  reportFile.exists => \A i \in 1..Len(reportFile.rows) : RowInRange(reportFile.rows[i])

\* C8: the finalized standardDeviation of a bucket is the sample standard
\* deviation of the totals folded into it, to the cent: 0 for at most one
\* total, else the root of the squared differences from the mean over n - 1.
\* With c the totals in cents, n * (n - 1) times the squared deviation in
\* cents is n * sum(c^2) - sum(c)^2, in whole numbers; and the rows 600.00,
\* 900.00, 1200.00 of 2021-03 give 3, 1200.00, 600.00, 900.00, 300.00.
RECURSIVE SumCents(_, _)
SumCents(values, i) == IF i = 0 THEN 0 ELSE SumCents(values, i - 1) + NearestCents(values[i])

BSquare(n) == BMul(BFromInt(n), BFromInt(n))

RECURSIVE SumSquaredCents(_, _)
SumSquaredCents(values, i) ==
  IF i = 0 THEN <<>>
  ELSE BAdd(SumSquaredCents(values, i - 1), BSquare(NearestCents(values[i])))

\* 4 * (n * sum(c^2) - sum(c)^2)
Spread4(values, n) ==
  BMulSmall(BSub(BMulSmall(SumSquaredCents(values, n), n), BSquare(SumCents(values, n))), 4)

\* d cents is nearest to the root of spread4 / (4 * n * (n - 1))
NearestRoot(d, spread4, n) ==
  /\ d >= 0
  /\ d > 0 => BCmp(BMulSmall(BSquare(2 * d - 1), n * (n - 1)), spread4) <= 0
  /\ BCmp(spread4, BMulSmall(BSquare(2 * d + 1), n * (n - 1))) <= 0

IsSampleDeviation(values, d) ==
  IF Len(values) <= 1 THEN d = 0 ELSE NearestRoot(d, Spread4(values, Len(values)), Len(values))

ExampleRows ==
  <<RowLine(1, Money(600, 0, 0), MidMarch),
    RowLine(1, Money(900, 0, 0), MidMarch),
    RowLine(1, Money(1200, 0, 0), MidMarch)>>

ExampleReport ==
  <<[year |-> <<50, 48, 50, 49>>, month |-> <<51>>, month_name |-> "March",
     number_of_orders |-> 3,
     max_amount |-> Money(1200, 0, 0), min_amount |-> Money(600, 0, 0),
     sales_average |-> Money(900, 0, 0), standard_deviation |-> Money(300, 0, 0)]>>

C8_SampleDeviation ==
  [][(ppc = "reading" /\ ppc' = "resolved") =>
        /\ \A i \in 1..Len(monthlyStats) :
             /\ ~monthlyStats'[i].stats.standardDeviation.nan
             /\ IsSampleDeviation(monthlyStats[i].stats.amounts,
                                  NearestCents(monthlyStats'[i].stats.standardDeviation))
        /\ Rows = ExampleRows => reportFile'.rows = ExampleReport]_vars

\* the example has been processed and its report written
C8_Witness ==
  /\ FirstRunResolved
  /\ Rows = ExampleRows
  /\ reportFile.rows = ExampleReport

\* C9: the report has one row for each bucket and its rows ascend by
\* (year, month) read as integers, whatever the years' numbers of digits.
RowBefore(a, b) ==
  \/ parseInt(a.year).v < parseInt(b.year).v
  \/ parseInt(a.year).v = parseInt(b.year).v /\ parseInt(a.month).v < parseInt(b.month).v

C9_RowsAscending ==
  FirstRunResolved =>
    /\ Len(reportFile.rows) = Len(monthlyStats)
    /\ \A i, j \in 1..Len(reportFile.rows) :
         i < j => RowBefore(reportFile.rows[i], reportFile.rows[j])

\* C10: the year in the date text of every record generate() writes lies in
\* startYear..endYear, at every offset of the generating process.
C10_YearInRange ==
  \A i \in 1..Len(pending) : pending[i].date.y \in startYear..endYear

\* C11: the total of every record generate() writes lies between 500.00 and
\* 1800.00, for every value of Math.random() in [0, 1).
TotalInRange(line) ==
  /\ FLe(FFromInt(minTotal), parseFloat(line.total))
  /\ FLe(parseFloat(line.total), FFromInt(maxTotal))

C11_TotalInRange == \A i \in 1..Len(pending) : TotalInRange(pending[i])

\* a record at the upper end of the range has been generated
C11_Witness ==
  /\ pending # <<>>
  /\ parseFloat(pending[1].total) = FFromInt(maxTotal)

\* C12: in every data line generate() writes, the total has exactly two
\* digits after the decimal point.
C12_TwoDecimals == \A i \in 1..Len(pending) : Len(pending[i].total.frac) = 2

\* C13: a record whose date text is in UTC month M of year Y is folded into
\* the bucket (Y, M), at every offset of the aggregating process: each row
\* has its bucket, and each bucket counts the rows of its UTC month.
RowsOfMonth(year, month) ==
  {i \in 1..Len(Rows) : Rows[i].date.y = year.v /\ Rows[i].date.mo = month.v}

C13_UtcBuckets ==
  FirstRunResolved =>
    /\ \A i \in 1..Len(Rows) :
         \E j \in 1..Len(monthlyStats) :
           /\ monthlyStats[j].stats.year = IntNum(Rows[i].date.y)
           /\ monthlyStats[j].stats.month = IntNum(Rows[i].date.mo)
    /\ \A j \in 1..Len(monthlyStats) :
         monthlyStats[j].stats.numberOfOrders =
           Cardinality(RowsOfMonth(monthlyStats[j].stats.year, monthlyStats[j].stats.month))

\* C14: when the write of a batch fails, generate() ends there: the step
\* whose write callback carries an error leaves generate() failed with that
\* error, without counting the batch, and afterwards no batch is generated, no
\* line is written, the stream is not closed and completion is not reached
C14_WriteFailureAborts ==
  [][/\ (genError = "none" /\ genError' = "write") =>
          (gpc' = "failed" /\ processed' = processed /\ pending' = <<>>)
      /\ (genError = "write" => UNCHANGED vars)]_vars

\* a write has failed while batches were still to be generated
C14_Witness ==
  /\ genError = "write"
  /\ gpc = "failed"
  /\ processed + batchSize < totalRecords

\* process() over a readable input whose read stream may fail at any point
IONext ==
  \/ ProcessNotFound
  \/ ProcessOpen
  \/ OnData
  \/ OnEnd
  \/ ReadStreamError
  \/ NewProcessor

SpecIO == ValidInit /\ [][IONext]_vars

\* C15: when reading the input fails after the stream was opened, the promise
\* of process() is rejected, finalization is not run and no report is written
C15_ReadErrorRejects ==
  [][(/\ Len(runLog') = Len(runLog) + 1
      /\ runLog'[Len(runLog')].outcome = "readerror") =>
        (/\ ppc' = "rejected"
         /\ monthlyStats' = monthlyStats
         /\ reportFile' = reportFile)]_vars

\* generate() without failure, then process() over the file it wrote; the
\* two calls may run under different time zone offsets
MonthsOfRange == (endYear - startYear + 1) * 12

PipeInit ==
  /\ salesFile \in {NoFile, File(<<HeaderLine, RowLine(7, Money(900, 0, 0), MidMarch)>>)}
  /\ reportFile = NoReport
  /\ totalRecords \in 1..MaxRecords
  /\ batchSize \in 1..MaxBatch
  /\ genTz \in TzOffsets
  /\ gpc = "idle" /\ processed = 0 /\ pending = <<>> /\ genError = "none"
  /\ procTz \in TzOffsets
  /\ monthlyStats = <<>> /\ ppc = "idle" /\ cursor = 0
  /\ recordsProcessed = 0 /\ calls = 0 /\ runLog = <<>>

PipeProcess == gpc = "done" /\ calls = 0 /\ ProcessOpen

PipeNext ==
  \/ GenerateOpen
  \/ GenerateBatch
  \/ WriteAck
  \/ GenerateClose
  \/ CloseAck
  \/ PipeProcess
  \/ OnData
  \/ OnEnd

SpecPipe == PipeInit /\ [][PipeNext]_vars

\* C16: processing the file generate() wrote for T >= 1 records gives at
\* least 1 and at most 72 buckets, each with a year in 2020..2025 and a month
\* in 1..12, whose numberOfOrders sum to T
BucketInRange(stats) ==
  /\ ~stats.year.nan /\ stats.year.v \in startYear..endYear
  /\ ~stats.month.nan /\ stats.month.v \in 1..12

C16_PipelineBuckets ==
  (gpc = "done" /\ FirstRunResolved) =>
    /\ Len(monthlyStats) \in 1..MonthsOfRange
    /\ \A i \in 1..Len(monthlyStats) : BucketInRange(monthlyStats[i].stats)
    /\ SumOrders(monthlyStats, Len(monthlyStats)) = totalRecords

\* C17: after a successful process(), getStats() gives the number of buckets,
\* the sum of numberOfOrders over the buckets, and the year range: the least
\* and the greatest bucket year joined by "-", or the year alone when they
\* are the same; with no bucket it gives 0, the empty string and 0
BucketYears == {monthlyStats[i].stats.year : i \in 1..Len(monthlyStats)}

OrderMarks == {<<i, k>> \in (1..Len(monthlyStats)) \X (1..Len(Rows)) :
                 k <= monthlyStats[i].stats.numberOfOrders}

IsYearRange(text) ==
  \E lo \in BucketYears, hi \in BucketYears :
    /\ \A y \in BucketYears : ~y.nan /\ lo.v <= y.v /\ y.v <= hi.v
    /\ text = IF lo = hi THEN IntToString(lo)
                         ELSE IntToString(lo) \o <<45>> \o IntToString(hi)

C17_GetStats ==
  FirstRunResolved =>
    /\ getStats(monthlyStats).totalMonths = Len(monthlyStats)
    /\ getStats(monthlyStats).totalRecordsProcessed = Cardinality(OrderMarks)
    /\ IF monthlyStats = <<>>
         THEN getStats(monthlyStats).yearRange = <<>>
         ELSE IsYearRange(getStats(monthlyStats).yearRange)

\* generate() for a positive totalRecords when every write and the closing of
\* the stream are acknowledged without error: each step of generate() that
\* stays possible is eventually taken
LoopInit == GenInit /\ totalRecords >= 1

LoopNext ==
  \/ GenerateOpen
  \/ GenerateBatch
  \/ WriteAck
  \/ GenerateClose
  \/ CloseAck

\* weak fairness of the loop's turn, WF_vars(GenerateBatch), with its
\* enabling condition written out: the turn is taken whenever the loop is at
\* its test with records still to generate
BatchTurnFair ==
  \/ []<>~(gpc = "loop" /\ processed < totalRecords)
  \/ []<><<GenerateBatch>>_vars

SpecLoop ==
  /\ LoopInit
  /\ [][LoopNext]_vars
  /\ WF_vars(GenerateOpen)
  /\ BatchTurnFair
  /\ WF_vars(WriteAck)
  /\ WF_vars(GenerateClose)
  /\ WF_vars(CloseAck)

\* C18: for positive totalRecords and batchSize, when every write is
\* acknowledged without error the loop of generate() terminates; processed
\* never exceeds totalRecords, each iteration adds
\* min(batchSize, totalRecords - processed) >= 1 to it, and the loop is left
\* exactly when processed = totalRecords
C18_LoopTerminates ==
  /\ [](processed <= totalRecords)
  /\ [](gpc = "writing" => processed < totalRecords)
  /\ [][processed' # processed =>
          /\ processed' = processed + Min(batchSize, totalRecords - processed)
          /\ processed' > processed]_vars
  /\ [][(gpc = "loop" /\ gpc' = "closing") => processed = totalRecords]_vars
  /\ (gpc = "loop") ~> (gpc = "closing" /\ processed = totalRecords)

\* generate() has completed after a last batch shorter than batchSize
C18_Witness ==
  /\ gpc = "done"
  /\ processed = totalRecords
  /\ batchSize > 1
  /\ totalRecords % batchSize # 0
  /\ totalRecords > batchSize

\* C19: generate() synthesizes a batch only when the write of the batch
\* before it has been acknowledged, so the records generated and not yet
\* acknowledged as written are never more than batchSize: a batch is handed
\* to the stream only when none is pending, it starts at id processed + 1,
\* and the file then holds every record generated before it
C19_OneBatchResident ==
  /\ [](Len(pending) <= batchSize)
  /\ [][(pending' # pending /\ pending' # <<>>) =>
          (/\ pending = <<>>
           /\ pending'[1].id = processed + 1
           /\ Len(salesFile.lines) = processed + 1)]_vars

\* a second batch awaits its acknowledgement after a first batch of more than
\* one record was written
C19_Witness ==
  /\ gpc = "writing"
  /\ processed = batchSize
  /\ pending # <<>>
  /\ batchSize > 1

\* C20: in every run of process(), finalization happens once, when the input
\* is exhausted, and records are folded only before it; the report is written
\* at most once, in the step that finalizes, from the finalized buckets.
\* Records are folded only while the run reads rows still ahead of it; the
\* run stops reading in one step, taken after the last row, which finalizes
\* the buckets; and the report is written only in that step, as the
\* serialization of the buckets after finalization
FoldStep ==
  \/ monthlyStats' # monthlyStats /\ monthlyStats' # <<>>
  \/ recordsProcessed' > recordsProcessed

EndStep == ppc = "reading" /\ ppc' # "reading"

WriteStep ==
  /\ Len(runLog') = Len(runLog) + 1
  /\ runLog'[Len(runLog')].outcome = "resolved"

AllFinalized(map) == \A i \in 1..Len(map) : ~map[i].stats.hasAmounts

C20_FinalizeOnce ==
  [][/\ ((FoldStep /\ ~EndStep) =>
          (/\ ppc = "reading" /\ ppc' = "reading"
           /\ cursor <= Len(Rows) /\ cursor' = cursor + 1))
      /\ (EndStep =>
          (/\ cursor > Len(Rows)
           /\ monthlyStats' = finalizeStats(monthlyStats).map
           /\ Len(runLog') = Len(runLog) + 1))
      /\ ((reportFile' # reportFile \/ WriteStep) => EndStep)
      /\ ((EndStep /\ ppc' = "resolved") =>
          (/\ AllFinalized(monthlyStats')
           /\ reportFile' = statsToCSV(monthlyStats')
           /\ runLog'[Len(runLog')].report = reportFile'))
      /\ ((EndStep /\ ppc' # "resolved") => reportFile' = reportFile)]_vars

\* a run over several rows has finalized its buckets and written the report
C20_Witness ==
  /\ FirstRunResolved
  /\ recordsProcessed >= 2
  /\ monthlyStats # <<>>
  /\ AllFinalized(monthlyStats)
  /\ reportFile = statsToCSV(monthlyStats)

\* C21: while a first run of process() is reading, each bucket has
\* minAmount <= every total folded into it <= maxAmount, numberOfOrders equal
\* to the length of its amounts list and totalAmount equal to the sum of that
\* list, and a bucket holding one record has both extrema equal to its total
RECURSIVE SumOf(_, _)
SumOf(amounts, n) == IF n = 0 THEN FZero ELSE FAdd(SumOf(amounts, n - 1), amounts[n])

BucketConsistent(stats) ==
  /\ stats.hasAmounts
  /\ stats.numberOfOrders = Len(stats.amounts)
  /\ \A k \in 1..Len(stats.amounts) :
       FLe(stats.minAmount, stats.amounts[k]) /\ FLe(stats.amounts[k], stats.maxAmount)
  /\ ~stats.totalAmount.nan
  /\ stats.totalAmount = SumOf(stats.amounts, Len(stats.amounts))
  /\ Len(stats.amounts) = 1 =>
       (stats.minAmount = stats.amounts[1] /\ stats.maxAmount = stats.amounts[1])

C21_BucketInvariant ==
  (ppc = "reading" /\ calls = 1) =>
    \A i \in 1..Len(monthlyStats) : BucketConsistent(monthlyStats[i].stats)

\* C22: a bucket exists exactly for the (year, month) of the records folded
\* so far, one bucket for each, so every bucket has numberOfOrders >= 1;
\* salesAverage is totalAmount / numberOfOrders with a divisor of at least
\* 1; and an input with no data rows gives a report of the header alone
FoldedRows ==
  IF ppc = "idle" THEN {}
  ELSE IF ppc = "reading" /\ calls = 1 THEN 1..(cursor - 1)
  ELSE 1..Len(Rows)

RowYearMonth(row) ==
  <<getFullYear(ParseDate(row.date), procTz),
    MonthOf(getMonth(ParseDate(row.date), procTz))>>

BucketYearMonths ==
  {<<monthlyStats[i].stats.year, monthlyStats[i].stats.month>> : i \in 1..Len(monthlyStats)}

C22_LazyBuckets ==
  /\ BucketYearMonths = {RowYearMonth(Rows[i]) : i \in FoldedRows}
  /\ Cardinality(BucketYearMonths) = Len(monthlyStats)
  /\ \A i \in 1..Len(monthlyStats) : monthlyStats[i].stats.numberOfOrders >= 1
  /\ ppc = "resolved" =>
       \A i \in 1..Len(monthlyStats) :
         monthlyStats[i].stats.salesAverage =
           FDivInt(monthlyStats[i].stats.totalAmount, monthlyStats[i].stats.numberOfOrders)
  /\ (ppc = "resolved" /\ Rows = <<>>) =>
       reportFile = [exists |-> TRUE, header |-> ReportHeader, rows |-> <<>>]

\* a run has finalized two buckets, one of them holding several records
C22_Witness ==
  /\ FirstRunResolved
  /\ Len(monthlyStats) = 2
  /\ \E i \in 1..Len(monthlyStats) : monthlyStats[i].stats.numberOfOrders >= 2

\* C23: a second process() call on the same SalesProcessor, over an input
\* that exists, succeeds and reflects only the records read during that call:
\* while it reads, every bucket has its amounts list and the buckets count
\* the rows read so far in this call; when it has ended, it has resolved, the
\* report is the one a new processor writes for the input, and getStats()
\* counts the rows of the input once
C23_SecondCallFresh ==
  (calls = 2 /\ salesFile.exists) =>
    IF ppc = "reading"
    THEN /\ \A i \in 1..Len(monthlyStats) : monthlyStats[i].stats.hasAmounts
         /\ SumOrders(monthlyStats, Len(monthlyStats)) = cursor - 1
    ELSE /\ ppc = "resolved"
         /\ reportFile = ReportFor(Rows, procTz)
         /\ getStats(monthlyStats).totalRecordsProcessed = Len(Rows)

=============================================================================
